---- MODULE Spec2Model ----
(***************************************************************************)
(* Model of the machine-level simulation driver, ptlsim/sim/machine.cpp:   *)
(* BaseMachine::init / setup_threads / run / run_threaded /                *)
(* run_cores_thread.  The orchestrator (the thread that calls run) and the *)
(* worker pthreads are separate processes; the two pthread barriers and    *)
(* exit_mutex are modelled explicitly.                                     *)
(*                                                                         *)
(* Spec      the cycle engine, init() taken as one step                    *)
(* SpecOpt   the Options Store: add_option / get_option                    *)
(* SpecAsm   machine assembly step by step: init, the builders, the        *)
(*           Connection Graph, reset                                       *)
(* SpecStats the cycle engine across the stride of the periodic snapshot   *)
(* SpecExt   the cycle engine with an external stop request                *)
(* SpecLive  the cycle engine in threaded mode under a fair scheduler      *)
(* SpecFlush the cycle engine with TLB flush broadcasts between runs       *)
(***************************************************************************)
EXTENDS Integers, Sequences, FiniteSets, TLC

\* ------------------------------------------------------------------ bounds
MaxCores == 3
MaxCycles == 3
MaxCoresPerPthread == MaxCores - 1
MaxStartLog == MaxCycles - 1
MaxVoteAt == MaxCycles - 1
MidBudget == MaxCores

\* ------------------------------------------------------- derived domains
CoreIds == 0 .. (MaxCores - 1)
Workers == 0 .. (MaxCores - 1)
\* thread ids: the workers are 0 .. MaxCores - 1, the orchestrator comes after
Main == MaxCores
\* exit_mutex is the set of its holders
Free == {}
NoBudget == MaxCores * MaxCycles + 1
Budgets == {0, MidBudget, NoBudget}
LogLevels == {0, 1}

VARIABLES
    config,                     \* PTLsimConfig fields read by the driver
    tmpl,                       \* machine template: cores it registers, core behaviour
    cores,                      \* BaseMachine::cores, sequence of coreids
    logenable,
    first_run,
    sim_cycle,
    iterations,
    total_user_insns_committed,
    exit_requested,
    ret_qemu_env,               \* TRUE = bound, FALSE = NULL
    exit_mutex,                 \* Free or {the thread holding it}
    runcycle_barrier,
    exit_process_barrier,
    pthreads,                   \* set of spawned worker ids
    start_id,                   \* PthreadArg::start_id of each worker
    mycores,                    \* run_cores_thread: mycores of each worker
    pc,                         \* position of the orchestrator
    exiting,                    \* local `exiting` of run / run_threaded
    wpc,                        \* position of each worker
    widx,                       \* worker: index of the next core of mycores
    wexiting,                   \* worker: local `exiting`
    clock_calls,                \* number of memoryHierarchyPtr->clock() calls returned
    runcycle_calls,             \* per coreid: number of runcycle() calls returned
    cycle_votes,                \* OR of the votes returned since the last clock()
    hist,                       \* one record per completed cycle
    last_ret,                   \* what the last return of run() was
    setup_seen,                 \* what setup_threads read: the request and logable(loglevel, 1)
    bool_options,               \* Options Store: name -> (option -> bool)
    int_options,                \* Options Store: name -> (option -> int)
    str_options,                \* Options Store: name -> (option -> string)
    opt_set,                    \* per kind: the value last passed to add_option
    opt_get,                    \* the last get_option call: arguments, out, result
    opt_calls,                  \* number of add_option calls made
    memoryHierarchyPtr,         \* 0 = NULL, k = the k-th hierarchy constructed
    coreid_counter,
    context_counter,
    core_names,                 \* per core: prefix, type and composed instance name
    controllers,                \* BaseMachine::controllers
    controller_hash,            \* name -> position in controllers
    interconnects,              \* BaseMachine::interconnects
    connections,                \* BaseMachine::connections (ConnectionDef)
    gen,                        \* the calls the machine generator has still to make
    asm,                        \* position of init(): phase, builds, events so far
    fatal,                      \* the failed assert, if any, and its diagnostic
    time_stats_file,            \* TRUE = a time-series stats file is configured
    stats_log,                  \* the dump_header / dump_periodic calls made
    ext_stop,                   \* the external stop request, once made
    tlb_flush                   \* the last flush_tlb / flush_tlb_virt broadcast

cfgvars == <<config, tmpl>>
machvars == <<cores, pthreads, start_id, runcycle_barrier, exit_process_barrier>>
countvars == <<sim_cycle, iterations, total_user_insns_committed, hist>>
orchvars == <<pc, exiting, logenable, first_run, ret_qemu_env, last_ret, setup_seen>>
workvars == <<wpc, widx, wexiting, mycores>>
callvars == <<clock_calls, runcycle_calls, cycle_votes>>
flagvars == <<exit_requested, exit_mutex>>

optvars == <<bool_options, int_options, str_options, opt_set, opt_get, opt_calls>>
asmvars == <<memoryHierarchyPtr, coreid_counter, context_counter, core_names,
             controllers, controller_hash, interconnects, connections, gen,
             asm, fatal>>
sidevars == <<optvars, asmvars, time_stats_file, ext_stop, tlb_flush>>

vars == <<cfgvars, machvars, countvars, orchvars, workvars, callvars, flagvars,
          sidevars, stats_log>>

\* ------------------------------------------------------------- helpers
Min(a, b) == IF a < b THEN a ELSE b

Range(s) == {s[i] : i \in 1 .. Len(s)}

\* logable(level): config.loglevel >= level with logging enabled
logable(loglevel, level) == loglevel >= level /\ logenable

\* BaseCore::runcycle(): the vote returned by the k-th advance of a core
RuncycleVote(core, k) == core \in tmpl.voters /\ k = tmpl.voteAt

\* BaseCore::get_insns_committed(): one instruction committed per advance
get_insns_committed(core, calls) == calls[core]

RECURSIVE SumInsns(_, _, _)
SumInsns(cs, i, calls) ==
    IF i > Len(cs) THEN 0
    ELSE get_insns_committed(cs[i], calls) + SumInsns(cs, i + 1, calls)

\* "Collect total number of instructions committed"
CollectInsns(cs, calls) == SumInsns(cs, 1, calls)

\* the stop predicate on the configured limits
AtLimits(total) ==
    config.wait_all_finished \/ config.stop_at_user_insns <= total

\* setup_threads: num_threads = ceil(num_cores / config.cores_per_pthread),
\* both operands integers, so the division truncates before ceil is applied
NumThreads(num_cores, cpp) == num_cores \div cpp

ThreadingRefusedStrict(num_cores, cpp, verbose) == num_cores < cpp \/ verbose

\* setup_threads (l.108-109): the test that disables threaded simulation
ThreadingRefused(num_cores, cpp, verbose) == num_cores <= cpp \/ verbose

\* run_cores_thread: [start_coreid, end_coreid)
SliceOf(cs, start, cpp) ==
    LET end_coreid == Min(start + cpp, Len(cs))
    IN  [k \in 1 .. (IF end_coreid > start THEN end_coreid - start ELSE 0)
            |-> cs[start + k]]

\* pthread barrier: the threads waiting in pthread_barrier_wait; the arrival
\* that completes the count returns together with every waiting thread
NullBarrier == [arity |-> 0, waiting |-> {}]
NewBarrierWorkersOnly(n) == [arity |-> n - 1, waiting |-> {}]
NewBarrierOneMore(n) == [arity |-> n + 1, waiting |-> {}]
NewBarrier(n) == [arity |-> n, waiting |-> {}]
IsLast(b) == Cardinality(b.waiting) + 1 = b.arity
Arrive(b, t) ==
    IF IsLast(b) THEN [b EXCEPT !.waiting = {}]
    ELSE [b EXCEPT !.waiting = @ \cup {t}]
\* position of a worker / of the orchestrator after thread t arrived at b
WorkersAfter(b, t, at, waitpc, nextpc) ==
    [x \in Workers |->
        IF IsLast(b) /\ (x = t \/ x \in b.waiting) THEN nextpc[x]
        ELSE IF x = t THEN waitpc
        ELSE at[x]]
OrchAfter(b, t, at, waitpc, nextpc) ==
    IF IsLast(b) /\ (t = Main \/ Main \in b.waiting) THEN nextpc
    ELSE IF t = Main THEN waitpc
    ELSE at

\* ------------------------------------------------------ Options Store
\* Hashtable with add() replacing the entry of a key already present
EmptyTable == <<>>
Has(table, key) == key \in DOMAIN table
Put(table, key, value) ==
    [k \in DOMAIN table \cup {key} |-> IF k = key THEN value ELSE table[k]]

\* stringbuf << int / stringbuf << const char*: the text appended to a buffer
Fmt(i) == ToString(i)
ComposeName(prefix, i) == prefix \o Fmt(i)

OptKinds == {"bool", "int", "str"}
NoGet == [called |-> FALSE]
NoStop == [made |-> FALSE]
NoFlush == [made |-> FALSE]
NoFatal == [kind |-> "none", key |-> "", diag |-> <<>>]
\* init() not started; its steps are taken as one in MachineInit
AsmOff == [phase |-> "off", machine_config |-> "", built |-> 0, events |-> <<>>,
           clock0 |-> 0]

\* ---------------------------------------------------------------- Init
\* the state BaseMachine::BaseMachine leaves (l.26-37), nothing assembled yet
Constructed ==
    /\ cores = <<>>
    /\ first_run = TRUE
    /\ total_user_insns_committed = 0
    /\ exit_requested = FALSE
    /\ ret_qemu_env = FALSE
    /\ exit_mutex = Free
    /\ runcycle_barrier = NullBarrier
    /\ exit_process_barrier = NullBarrier
    /\ pthreads = {}
    /\ start_id = [w \in Workers |-> 0]
    /\ mycores = [w \in Workers |-> <<>>]
    /\ pc = "boot"
    /\ exiting = FALSE
    /\ wpc = [w \in Workers |-> "none"]
    /\ widx = [w \in Workers |-> 1]
    /\ wexiting = [w \in Workers |-> FALSE]
    /\ clock_calls = 0
    /\ runcycle_calls = [c \in CoreIds |-> 0]
    /\ cycle_votes = FALSE
    /\ hist = <<>>
    /\ last_ret = "none"
    /\ setup_seen = [threaded |-> FALSE, logable |-> FALSE, done |-> FALSE]
    /\ bool_options = EmptyTable
    /\ int_options = EmptyTable
    /\ str_options = EmptyTable
    /\ opt_set = [k \in OptKinds |-> EmptyTable]
    /\ opt_get = NoGet
    /\ opt_calls = 0
    /\ memoryHierarchyPtr = 0
    /\ coreid_counter = 0
    /\ context_counter = 0
    /\ core_names = <<>>
    /\ controllers = <<>>
    /\ controller_hash = EmptyTable
    /\ interconnects = <<>>
    /\ connections = <<>>
    /\ gen = <<>>
    /\ fatal = NoFatal
    /\ ext_stop = NoStop
    /\ tlb_flush = NoFlush

\* the process-wide cycle counters when no cycle has run yet
NoCycleYet ==
    /\ sim_cycle = 0
    /\ iterations = 0
    /\ stats_log = <<>>

Init ==
    /\ config \in [threaded_simulation : BOOLEAN,
                   cores_per_pthread : 1 .. MaxCoresPerPthread,
                   start_log_at_iteration : 0 .. MaxStartLog,
                   log_user_only : BOOLEAN,
                   wait_all_finished : BOOLEAN,
                   stop_at_user_insns : Budgets]
    /\ \E n \in 1 .. MaxCores :
          tmpl \in [ncores : {n}, voters : {{}}, voteAt : {0}]
                 \cup [ncores : {n}, voters : {{0}, {n - 1}}, voteAt : 1 .. MaxVoteAt]
    /\ logenable \in BOOLEAN
    /\ time_stats_file = FALSE
    /\ asm = AsmOff
    /\ NoCycleYet
    /\ Constructed

\* ------------------------------ BaseMachine::setup_threads (l.98-167)
SetupThreads(cs, loglevel) ==
    LET num_cores == Len(cs)
        cpp == config.cores_per_pthread
        num_threads == NumThreads(num_cores, cpp)
    IN  /\ setup_seen' = [threaded |-> config.threaded_simulation,
                          logable |-> logable(loglevel, 1), done |-> TRUE]
        /\ IF ~config.threaded_simulation
           THEN UNCHANGED <<config, pthreads, start_id, runcycle_barrier,
                            exit_process_barrier, wpc>>
           ELSE IF ThreadingRefused(num_cores, cpp, logable(loglevel, 1))
           THEN /\ config' = [config EXCEPT !.threaded_simulation = FALSE]
                /\ UNCHANGED <<pthreads, start_id, runcycle_barrier,
                               exit_process_barrier, wpc>>
           ELSE /\ runcycle_barrier' = NewBarrier(num_threads + 1)
                /\ exit_process_barrier' = NewBarrier(num_threads + 1)
                /\ pthreads' = 0 .. (num_threads - 1)
                /\ start_id' = [w \in Workers |->
                                  IF w < num_threads THEN w * cpp ELSE 0]
                /\ wpc' = [w \in Workers |->
                              IF w < num_threads THEN "w_start" ELSE "none"]
                /\ UNCHANGED config

\* ------------------------------------------- BaseMachine::init (l.72-96)
\* setup_machine has pushed the template's cores; setup_threads follows.
MachineInit ==
    /\ pc = "boot"
    /\ \E loglevel \in LogLevels :
       LET cs == [i \in 1 .. tmpl.ncores |-> i - 1]
       IN  /\ cores' = cs
           /\ SetupThreads(cs, loglevel)
    /\ pc' = "idle"
    /\ UNCHANGED <<sidevars, stats_log, tmpl, countvars, exiting, logenable, first_run, ret_qemu_env,
                   last_ret, widx, wexiting, mycores, callvars, flagvars>>

\* ------------------------------------------- BaseMachine::run (l.176-210)
RunEnter ==
    /\ pc = "idle"
    /\ Len(hist) < MaxCycles
    /\ logenable' = IF config.start_log_at_iteration > 0
                       /\ iterations >= config.start_log_at_iteration
                       /\ ~config.log_user_only
                    THEN TRUE ELSE logenable
    /\ first_run' = FALSE
    /\ exiting' = FALSE
    /\ pc' = IF config.threaded_simulation THEN "t_top" ELSE "s_top"
    /\ UNCHANGED <<sidevars, stats_log, cfgvars, machvars, countvars, ret_qemu_env, last_ret,
                   setup_seen, workvars, callvars, flagvars>>

\* ---------------------------------------- time-series statistics dumps
\* the stride of the periodic snapshot (l.228, l.299)
PeriodicStride == 10000

\* l.224, l.295: sim_cycle == 0 && time_stats_file
HeaderDue(cycle) == cycle = 0 /\ time_stats_file

PeriodicDueEveryCycle(cycle) == time_stats_file

\* l.228, l.299: sim_cycle % 10000 == 0 && time_stats_file
PeriodicDue(cycle) == cycle % PeriodicStride = 0 /\ time_stats_file

\* dump_header, then dump_periodic keyed by the cycle, at the top of an iteration
StatsPreamble(log, cycle) ==
    log \o (IF HeaderDue(cycle) THEN <<[ev |-> "header", key |-> cycle]>> ELSE <<>>)
        \o (IF PeriodicDue(cycle) THEN <<[ev |-> "periodic", key |-> cycle]>> ELSE <<>>)

\* the record of a completed cycle
CycleRecord(mode, total, calls, voted, left) ==
    [mode |-> mode, total |-> total, calls |-> calls, voted |-> voted,
     exited |-> left]

\* run: "exiting |= core.runcycle()" over the whole cores sequence
AdvanceAll(cs, calls) ==
    [c \in DOMAIN calls |-> IF c \in Range(cs) THEN calls[c] + 1 ELSE calls[c]]

AnyVote(cs, calls) == \E c \in Range(cs) : RuncycleVote(c, calls[c])

BindFallbackSkipped(env) == env

\* the fallback binding of ret_qemu_env on the vote path (l.264-268, l.340-344)
BindFallback(env) == TRUE

\* ------------------------- BaseMachine::run, one iteration (l.212-269)
SeqCycle ==
    /\ pc = "s_top"
    /\ LET calls == AdvanceAll(cores, runcycle_calls)
           voted == AnyVote(cores, calls)
           ex == exiting \/ voted
           total == CollectInsns(cores, calls)
           left == AtLimits(total) \/ ex
       IN  /\ logenable' = IF ~logenable
                              /\ iterations >= config.start_log_at_iteration
                              /\ ~config.log_user_only
                           THEN TRUE ELSE logenable
           /\ stats_log' = StatsPreamble(stats_log, sim_cycle)
           /\ clock_calls' = clock_calls + 1
           /\ runcycle_calls' = calls
           /\ cycle_votes' = voted
           /\ total_user_insns_committed' = total
           /\ sim_cycle' = sim_cycle + 1
           /\ iterations' = iterations + 1
           /\ hist' = Append(hist, CycleRecord("seq", total, calls, voted, left))
           /\ IF AtLimits(total)
              THEN /\ exiting' = TRUE
                   /\ pc' = "idle"
                   /\ last_ret' = "limit"
                   /\ UNCHANGED ret_qemu_env
              ELSE IF ex
              THEN /\ exiting' = ex
                   /\ ret_qemu_env' = IF ~ret_qemu_env
                                      THEN BindFallback(ret_qemu_env)
                                      ELSE ret_qemu_env
                   /\ pc' = "idle"
                   /\ last_ret' = "vote"
              ELSE /\ exiting' = ex
                   /\ pc' = IF Len(hist') < MaxCycles THEN "s_top" ELSE "halt"
                   /\ UNCHANGED <<ret_qemu_env, last_ret>>
    /\ UNCHANGED <<sidevars, cfgvars, machvars, first_run, setup_seen, workvars,
                   flagvars>>

WorkerPublishesAlways(local_exiting) == TRUE

\* l.389: does the worker publish its local exiting
WorkerPublishes(local_exiting) == local_exiting

\* where the worker goes once the foreach over mycores is over (l.383-396)
AfterCores(local_exiting) ==
    IF WorkerPublishes(local_exiting) THEN "w_lock" ELSE "w_joinbar"

\* a worker returning from the run barrier enters runcycle() of its first core
AfterRunBarrier ==
    [x \in Workers |-> IF Len(mycores[x]) >= 1 THEN "w_in" ELSE AfterCores(FALSE)]

\* a worker returning from the join barrier is back at the top of its loop
AfterJoinBarrier == [x \in Workers |-> "w_runbar"]

\* --------------------------------- BaseMachine::run_threaded (l.279-353)
ReachedLogStartLate(start_log, iters) == start_log > 0 /\ iters > start_log

\* the degradation test at the top of the loop (l.285-286)
ReachedLogStart(start_log, iters) == start_log > 0 /\ iters >= start_log

ClocksAtDegradeAfterClock(calls) == calls + 1

\* the degradation return (l.285-289) comes before memoryHierarchyPtr->clock()
\* (l.307): the clock() calls made when run_threaded returns false
ClocksAtDegrade(calls) == calls

\* loop top: degrade (l.285-289) or run the preamble and enter clock() (l.307)
ThreadedTop ==
    /\ pc = "t_top"
    /\ IF ReachedLogStart(config.start_log_at_iteration, iterations)
       THEN /\ config' = [config EXCEPT !.threaded_simulation = FALSE]
            /\ clock_calls' = ClocksAtDegrade(clock_calls)
            /\ pc' = "idle"
            /\ last_ret' = "degrade"
            /\ UNCHANGED stats_log
       ELSE /\ stats_log' = StatsPreamble(stats_log, sim_cycle)
            /\ pc' = "t_clock"
            /\ UNCHANGED <<config, last_ret, clock_calls>>
    /\ UNCHANGED <<sidevars, tmpl, machvars, countvars, exiting, logenable, first_run,
                   ret_qemu_env, setup_seen, workvars, runcycle_calls,
                   cycle_votes, flagvars>>

\* memoryHierarchyPtr->clock() returns (l.307)
ClockReturn ==
    /\ pc = "t_clock"
    /\ clock_calls' = clock_calls + 1
    /\ cycle_votes' = FALSE
    /\ pc' = "t_runbar"
    /\ UNCHANGED <<sidevars, stats_log, cfgvars, machvars, countvars, exiting, logenable, first_run,
                   ret_qemu_env, last_ret, setup_seen, workvars, runcycle_calls,
                   flagvars>>

\* pthread_barrier_wait(runcycle_barrier) (l.310)
OrchRunArrive ==
    /\ pc = "t_runbar"
    /\ runcycle_barrier' = Arrive(runcycle_barrier, Main)
    /\ pc' = OrchAfter(runcycle_barrier, Main, pc, "t_runwait", "t_joinbar")
    /\ wpc' = WorkersAfter(runcycle_barrier, Main, wpc, "w_runwait", AfterRunBarrier)
    /\ UNCHANGED <<sidevars, stats_log, cfgvars, cores, pthreads, start_id, exit_process_barrier,
                   countvars, exiting, logenable, first_run, ret_qemu_env,
                   last_ret, setup_seen, widx, wexiting, mycores, callvars,
                   flagvars>>

\* pthread_barrier_wait(exit_process_barrier) (l.313)
OrchJoinArrive ==
    /\ pc = "t_joinbar"
    /\ exit_process_barrier' = Arrive(exit_process_barrier, Main)
    /\ pc' = OrchAfter(exit_process_barrier, Main, pc, "t_joinwait", "t_lock")
    /\ wpc' = WorkersAfter(exit_process_barrier, Main, wpc, "w_joinwait", AfterJoinBarrier)
    /\ UNCHANGED <<sidevars, stats_log, cfgvars, cores, pthreads, start_id, runcycle_barrier,
                   countvars, exiting, logenable, first_run, ret_qemu_env,
                   last_ret, setup_seen, widx, wexiting, mycores, callvars,
                   flagvars>>

\* pthread_mutex_lock(exit_mutex) (l.316)
OrchLock ==
    /\ pc = "t_lock"
    /\ exit_mutex = Free
    /\ exit_mutex' = {Main}
    /\ pc' = "t_cs"
    /\ UNCHANGED <<sidevars, stats_log, cfgvars, machvars, countvars, exiting, logenable, first_run,
                   ret_qemu_env, last_ret, setup_seen, workvars, callvars,
                   exit_requested>>

\* what the orchestrator leaves in exit_requested after reading it (l.318)
ClearedFlag(flag) == FALSE

\* exiting = exit_requested; exit_requested = 0; unlock (l.317-319)
OrchTakeFlag ==
    /\ pc = "t_cs"
    /\ exiting' = exit_requested
    /\ exit_requested' = ClearedFlag(exit_requested)
    /\ exit_mutex' = Free
    /\ pc' = "t_post"
    /\ UNCHANGED <<sidevars, stats_log, cfgvars, machvars, countvars, logenable, first_run,
                   ret_qemu_env, last_ret, setup_seen, workvars, callvars>>

\* the postamble and the stop predicate (l.321-345)
ThreadedPost ==
    /\ pc = "t_post"
    /\ LET total == CollectInsns(cores, runcycle_calls)
           left == AtLimits(total) \/ exiting
       IN  /\ total_user_insns_committed' = total
           /\ sim_cycle' = sim_cycle + 1
           /\ iterations' = iterations + 1
           /\ hist' = Append(hist, CycleRecord("thr", total, runcycle_calls,
                                               cycle_votes, left))
           /\ IF AtLimits(total)
              THEN /\ exiting' = TRUE
                   /\ pc' = "idle"
                   /\ last_ret' = "limit"
                   /\ UNCHANGED ret_qemu_env
              ELSE IF exiting
              THEN /\ ret_qemu_env' = IF ~ret_qemu_env
                                      THEN BindFallback(ret_qemu_env)
                                      ELSE ret_qemu_env
                   /\ pc' = "idle"
                   /\ last_ret' = "vote"
                   /\ UNCHANGED exiting
              ELSE /\ pc' = IF Len(hist') < MaxCycles THEN "t_top" ELSE "halt"
                   /\ UNCHANGED <<exiting, ret_qemu_env, last_ret>>
    /\ UNCHANGED <<sidevars, stats_log, cfgvars, machvars, logenable, first_run, setup_seen,
                   workvars, callvars, flagvars>>

\* ----------------------------- BaseMachine::run_cores_thread (l.355-398)
\* l.357-368: the worker collects its slice of the cores
WorkerStart(w) ==
    /\ wpc[w] = "w_start"
    /\ mycores' = [mycores EXCEPT ![w] =
                      SliceOf(cores, start_id[w], config.cores_per_pthread)]
    /\ wpc' = [wpc EXCEPT ![w] = "w_runbar"]
    /\ UNCHANGED <<sidevars, stats_log, cfgvars, machvars, countvars, orchvars, widx, wexiting,
                   callvars, flagvars>>

\* l.371-374: exiting = 0; pthread_barrier_wait(runcycle_barrier)
WorkerRunArrive(w) ==
    /\ wpc[w] = "w_runbar"
    /\ wexiting' = [wexiting EXCEPT ![w] = FALSE]
    /\ widx' = [widx EXCEPT ![w] = 1]
    /\ runcycle_barrier' = Arrive(runcycle_barrier, w)
    /\ wpc' = WorkersAfter(runcycle_barrier, w, wpc, "w_runwait", AfterRunBarrier)
    /\ pc' = OrchAfter(runcycle_barrier, w, pc, "t_runwait", "t_joinbar")
    /\ UNCHANGED <<sidevars, stats_log, cfgvars, cores, pthreads, start_id, exit_process_barrier,
                   countvars, exiting, logenable, first_run, ret_qemu_env,
                   last_ret, setup_seen, mycores, callvars, flagvars>>

\* l.383-385: core.runcycle() returns; exiting |= its vote; the foreach goes
\* on to runcycle() of the next core of mycores, if any
WorkerRuncycleEnd(w) ==
    /\ wpc[w] = "w_in"
    /\ LET core == mycores[w][widx[w]]
           k == runcycle_calls[core] + 1
           vote == RuncycleVote(core, k)
           ex == wexiting[w] \/ vote
       IN  /\ runcycle_calls' = [runcycle_calls EXCEPT ![core] = k]
           /\ cycle_votes' = (cycle_votes \/ vote)
           /\ wexiting' = [wexiting EXCEPT ![w] = ex]
           /\ widx' = [widx EXCEPT ![w] = @ + 1]
           /\ wpc' = [wpc EXCEPT ![w] =
                         IF widx[w] + 1 <= Len(mycores[w])
                         THEN "w_in" ELSE AfterCores(ex)]
    /\ UNCHANGED <<sidevars, stats_log, cfgvars, machvars, countvars, orchvars, mycores,
                   clock_calls, flagvars>>

\* l.390: pthread_mutex_lock(exit_mutex)
WorkerLock(w) ==
    /\ wpc[w] = "w_lock"
    /\ exit_mutex = Free
    /\ exit_mutex' = {w}
    /\ wpc' = [wpc EXCEPT ![w] = "w_cs"]
    /\ UNCHANGED <<sidevars, stats_log, cfgvars, machvars, countvars, orchvars, widx, wexiting,
                   mycores, callvars, exit_requested>>

\* l.391-392: exit_requested = exiting; unlock
WorkerPublish(w) ==
    /\ wpc[w] = "w_cs"
    /\ exit_requested' = wexiting[w]
    /\ exit_mutex' = Free
    /\ wpc' = [wpc EXCEPT ![w] = "w_joinbar"]
    /\ UNCHANGED <<sidevars, stats_log, cfgvars, machvars, countvars, orchvars, widx, wexiting,
                   mycores, callvars>>

\* l.396: pthread_barrier_wait(exit_process_barrier)
WorkerJoinArrive(w) ==
    /\ wpc[w] = "w_joinbar"
    /\ exit_process_barrier' = Arrive(exit_process_barrier, w)
    /\ wpc' = WorkersAfter(exit_process_barrier, w, wpc, "w_joinwait", AfterJoinBarrier)
    /\ pc' = OrchAfter(exit_process_barrier, w, pc, "t_joinwait", "t_lock")
    /\ UNCHANGED <<sidevars, stats_log, cfgvars, cores, pthreads, start_id, runcycle_barrier,
                   countvars, exiting, logenable, first_run, ret_qemu_env,
                   last_ret, setup_seen, widx, wexiting, mycores, callvars,
                   flagvars>>

Worker(w) ==
    \/ WorkerStart(w)
    \/ WorkerRunArrive(w)
    \/ WorkerRuncycleEnd(w)
    \/ WorkerLock(w)
    \/ WorkerPublish(w)
    \/ WorkerJoinArrive(w)

Next ==
    \/ MachineInit
    \/ RunEnter
    \/ SeqCycle
    \/ ThreadedTop
    \/ ClockReturn
    \/ OrchRunArrive
    \/ OrchJoinArrive
    \/ OrchLock
    \/ OrchTakeFlag
    \/ ThreadedPost
    \/ \E w \in Workers : Worker(w)

Spec == Init /\ [][Next]_vars

\* ======================================================================
\* The Options Store: add_option (l.514-577) and get_option (l.579-622)
enginevars == <<cfgvars, machvars, countvars, orchvars, workvars, callvars,
                flagvars, stats_log>>

OptNames == {"c0", "c10"}
OptPrefixes == {"c", "c1"}
OptIndexes == {0, 10}
OptKeys == {"x", "y"}
\* enough calls to set two options, or one option twice
MaxOptionCalls == Cardinality(OptKeys)
AllOptNames == OptNames \cup {ComposeName(p, i) : p \in OptPrefixes, i \in OptIndexes}
OptValues(kind) ==
    CASE kind = "bool" -> BOOLEAN
      [] kind = "int" -> {0, 1}
      [] OTHER -> {"a", "b"}
\* what the caller's out argument holds before get_option
OutBefore(kind) ==
    CASE kind = "bool" -> BOOLEAN
      [] kind = "int" -> {0, 1}
      [] OTHER -> {"", "z"}

Table(kind) ==
    CASE kind = "bool" -> bool_options
      [] kind = "int" -> int_options
      [] OTHER -> str_options

\* l.518-522: on the first option of a name, b is left pointing at the
\* block-local opts, whose lifetime ended at the closing brace; what
\* (*b)->add reaches through it is undefined: the new inner table, or not
DanglingOutcomes == {"stored", "lost"}

\* l.524 / l.537 / l.552: (*b)->add(opt, value)
AddTo(table, name, opt, value, outcome) ==
    IF Has(table, name)
    THEN Put(table, name, Put(table[name], opt, value))
    ELSE IF outcome = "stored"
    THEN Put(table, name, Put(EmptyTable, opt, value))
    ELSE Put(table, name, EmptyTable)

\* l.550-551: the string is copied into a fresh stringbuf
Stored(kind, value) == IF kind = "str" THEN "" \o value ELSE value

StoreOption(kind, name, opt, value, outcome) ==
    /\ bool_options' = IF kind = "bool"
                       THEN AddTo(bool_options, name, opt, Stored(kind, value), outcome)
                       ELSE bool_options
    /\ int_options' = IF kind = "int"
                      THEN AddTo(int_options, name, opt, Stored(kind, value), outcome)
                      ELSE int_options
    /\ str_options' = IF kind = "str"
                      THEN AddTo(str_options, name, opt, Stored(kind, value), outcome)
                      ELSE str_options
    /\ opt_set' = [opt_set EXCEPT ![kind] = Put(@, <<name, opt>>, value)]
    /\ opt_get' = NoGet
    /\ opt_calls' = opt_calls + 1
    /\ UNCHANGED <<enginevars, asmvars, time_stats_file, ext_stop, tlb_flush>>

\* add_option(name, opt, value), the three kinds (l.514-553)
AddOption ==
    \E kind \in OptKinds, name \in OptNames, opt \in OptKeys,
       outcome \in DanglingOutcomes :
        \E value \in OptValues(kind) :
            /\ opt_calls < MaxOptionCalls
            /\ StoreOption(kind, name, opt, value, outcome)

\* add_option(c_name, i, opt, value): core_name << c_name << i (l.555-577)
AddOptionIndexed ==
    \E kind \in OptKinds, c_name \in OptPrefixes, i \in OptIndexes,
       opt \in OptKeys, outcome \in DanglingOutcomes :
        \E value \in OptValues(kind) :
            /\ opt_calls < MaxOptionCalls
            /\ StoreOption(kind, ComposeName(c_name, i), opt, value, outcome)

\* what get_option leaves in out when the value is found:
\* value = *bt (l.586, l.601), value << **bt (l.616)
OutAfter(kind, out, found) ==
    IF kind = "str" THEN out \o found ELSE found

\* get_option(name, opt, out), the three kinds (l.579-622)
GetOption ==
    \E kind \in OptKinds, name \in AllOptNames, opt \in OptKeys :
        \E out \in OutBefore(kind) :
            LET table == Table(kind)
                hit == Has(table, name) /\ Has(table[name], opt)
            IN  /\ opt_get' = [called |-> TRUE, kind |-> kind, name |-> name,
                               opt |-> opt, before |-> out,
                               after |-> IF hit
                                         THEN OutAfter(kind, out, table[name][opt])
                                         ELSE out,
                               ret |-> hit]
                /\ UNCHANGED <<enginevars, asmvars, time_stats_file, ext_stop, tlb_flush,
                               bool_options, int_options, str_options,
                               opt_set, opt_calls>>

InitOpt ==
    /\ config = [threaded_simulation |-> FALSE, cores_per_pthread |-> 1,
                 start_log_at_iteration |-> 0, log_user_only |-> FALSE,
                 wait_all_finished |-> FALSE, stop_at_user_insns |-> NoBudget]
    /\ tmpl = [ncores |-> 1, voters |-> {}, voteAt |-> 0]
    /\ logenable = FALSE
    /\ time_stats_file = FALSE
    /\ asm = AsmOff
    /\ NoCycleYet
    /\ Constructed

NextOpt ==
    \/ AddOption
    \/ AddOptionIndexed
    \/ GetOption

SpecOpt == InitOpt /\ [][NextOpt]_vars

\* ======================================================================
\* Machine assembly: init (l.72-96), the builders (l.635-731), the
\* Connection Graph (l.458-512) and reset (l.48-65)
MaxAssemblies == MaxCycles - 1

\* the registries, filled at process initialisation by the plugins
coreBuilders == {"ooo", "atom"}
controllerBuilders == {"wb_cache", "mesi_cache"}
interconnectBuilders == {"p2p", "split_bus"}

\* the calls a machine generator makes on the machine, in order
NewCore(name, core_name) ==
    [op |-> "core", name |-> name, type |-> core_name, id |-> 0, tag |-> 0]
NewCont(coreid, name, cont_name, type) ==
    [op |-> "cont", name |-> name, type |-> cont_name, id |-> coreid, tag |-> type]
NewConnectionDef(interconnect, name, id) ==
    [op |-> "conn", name |-> name, type |-> interconnect, id |-> id, tag |-> 0]
NewConnection(cont, type) ==
    [op |-> "attach", name |-> cont, type |-> "", id |-> 0, tag |-> type]
SetupCall == [op |-> "setup", name |-> "", type |-> "", id |-> 0, tag |-> 0]

\* MachineBuilder::machineBuilders: generator name -> generator
machineBuilders ==
    [bare |-> <<NewCore("core_", "ooo"), SetupCall>>,
     single |-> <<NewCore("core_", "ooo"), NewCont(0, "L1_", "wb_cache", 1),
                  NewConnectionDef("p2p", "p2p_", 0), NewConnection("L1_0", 0),
                  SetupCall>>,
     dual |-> <<NewCore("core_", "ooo"), NewCore("core_", "atom"),
                NewCont(0, "L1_", "mesi_cache", 1), NewCont(1, "L1_", "mesi_cache", 1),
                NewConnectionDef("split_bus", "bus_", 0),
                NewConnection("L1_0", 0), NewConnection("L1_1", 1), SetupCall>>,
     no_core |-> <<NewCore("core_", "xeon")>>,
     no_cont |-> <<NewCore("core_", "ooo"), NewCont(0, "L1_", "moesi_cache", 1)>>,
     no_int |-> <<NewCore("core_", "ooo"), NewCont(0, "L1_", "wb_cache", 1),
                  NewConnectionDef("mesh", "mesh_", 0), NewConnection("L1_0", 0),
                  SetupCall>>,
     no_attach |-> <<NewCore("core_", "ooo"), NewCont(0, "L1_", "wb_cache", 1),
                     NewConnectionDef("p2p", "p2p_", 0), NewConnection("L2_0", 0),
                     SetupCall>>]

\* config.machine_config: empty, naming no generator, or naming one
MachineConfigs == DOMAIN machineBuilders \cup {"", "quad"}

Fatal(kind, key, diag) == [kind |-> kind, key |-> key, diag |-> diag]

\* the pieces streamed into the diagnostic before the assert
MissingDiag(what, key, rest) == <<"::ERROR::Can't find " \o what, key, rest>>

get_next_coreid_preincrement(counter) == [id |-> counter + 1, counter |-> counter + 1]

\* get_next_coreid (l.452-456): return coreid_counter++
get_next_coreid(counter) == [id |-> counter, counter |-> counter + 1]

\* init, up to the call of setup_machine (l.72-85)
MachineInitBegin ==
    /\ pc = "boot"
    /\ asm.phase = "new"
    /\ memoryHierarchyPtr' = asm.built + 1
    /\ IF asm.machine_config = ""
       THEN /\ fatal' = Fatal("empty_config", "-machine",
                              <<"[ERROR] Please provide Machine name in config using ",
                                "-machine">>)
            /\ asm' = [asm EXCEPT !.phase = "fatal", !.built = @ + 1,
                                  !.events = <<"hier">>, !.clock0 = clock_calls]
       ELSE /\ asm' = [asm EXCEPT !.phase = "lookup", !.built = @ + 1,
                                  !.events = <<"hier">>, !.clock0 = clock_calls]
            /\ UNCHANGED fatal
    /\ UNCHANGED <<enginevars, optvars, time_stats_file, ext_stop, tlb_flush, coreid_counter,
                   context_counter, core_names, controllers, controller_hash,
                   interconnects, connections, gen>>

\* MachineBuilder::setup_machine (l.635-648), up to the call of the generator
SetupMachine ==
    /\ asm.phase = "lookup"
    /\ IF ~Has(machineBuilders, asm.machine_config)
       THEN /\ fatal' = Fatal("no_machine", asm.machine_config,
                              MissingDiag("'", asm.machine_config,
                                          "' machine generator."))
            /\ asm' = [asm EXCEPT !.phase = "fatal"]
            /\ UNCHANGED gen
       ELSE /\ gen' = machineBuilders[asm.machine_config]
            /\ asm' = [asm EXCEPT !.phase = "gen"]
            /\ UNCHANGED fatal
    /\ UNCHANGED <<enginevars, optvars, time_stats_file, ext_stop, tlb_flush,
                   memoryHierarchyPtr, coreid_counter, context_counter,
                   core_names, controllers, controller_hash, interconnects,
                   connections>>

GenCall(op) == asm.phase = "gen" /\ gen # <<>> /\ Head(gen).op = op

\* CoreBuilder::add_new_core (l.677-696); the core built by get_new_core
\* takes its coreid from get_next_coreid and one context from get_next_context
AddNewCore ==
    /\ GenCall("core")
    /\ LET c == Head(gen)
           core_name_t == ComposeName(c.name, coreid_counter)
           got == get_next_coreid(coreid_counter)
       IN  IF c.type \notin coreBuilders
           THEN /\ fatal' = Fatal("no_core_builder", c.type,
                                  MissingDiag("Core Builder '", c.type,
                                              "'. Please check your config file."))
                /\ asm' = [asm EXCEPT !.phase = "fatal"]
                /\ UNCHANGED <<cores, core_names, coreid_counter,
                               context_counter, gen>>
           ELSE /\ cores' = Append(cores, got.id)
                /\ coreid_counter' = got.counter
                /\ context_counter' = context_counter + 1
                /\ core_names' = Append(core_names,
                                        [prefix |-> c.name, type |-> c.type,
                                         name |-> core_name_t, mh |-> 0])
                /\ gen' = Tail(gen)
                /\ asm' = [asm EXCEPT !.events = Append(@, "core")]
                /\ UNCHANGED fatal
    /\ UNCHANGED <<cfgvars, pthreads, start_id, runcycle_barrier,
                   exit_process_barrier, countvars, orchvars, workvars,
                   callvars, flagvars, stats_log, optvars, time_stats_file,
                   ext_stop, tlb_flush, memoryHierarchyPtr, controllers, controller_hash,
                   interconnects, connections>>

\* ControllerBuilder::add_new_cont (l.711-731)
AddNewCont ==
    /\ GenCall("cont")
    /\ LET c == Head(gen)
           cont_name_t == ComposeName(c.name, c.id)
       IN  IF c.type \notin controllerBuilders
           THEN /\ fatal' = Fatal("no_controller_builder", c.type,
                                  MissingDiag("Controller Builder '", c.type,
                                              "'. Please check your config file."))
                /\ asm' = [asm EXCEPT !.phase = "fatal"]
                /\ UNCHANGED <<controllers, controller_hash, gen>>
           ELSE /\ controllers' = Append(controllers,
                                         [coreid |-> c.id, type |-> c.type,
                                          tag |-> c.tag, mh |-> memoryHierarchyPtr,
                                          name |-> cont_name_t,
                                          interconnects |-> <<>>])
                /\ controller_hash' = Put(controller_hash, cont_name_t,
                                          Len(controllers) + 1)
                /\ gen' = Tail(gen)
                /\ asm' = [asm EXCEPT !.events = Append(@, "cont")]
                /\ UNCHANGED fatal
    /\ UNCHANGED <<enginevars, optvars, time_stats_file, ext_stop, tlb_flush,
                   memoryHierarchyPtr, coreid_counter, context_counter,
                   core_names, interconnects, connections>>

\* BaseMachine::get_new_connection_def (l.458-466)
GetNewConnectionDef ==
    /\ GenCall("conn")
    /\ LET c == Head(gen)
       IN  connections' = Append(connections,
                                 [interconnect |-> c.type,
                                  name |-> ComposeName(c.name, c.id),
                                  connections |-> <<>>])
    /\ gen' = Tail(gen)
    /\ asm' = [asm EXCEPT !.events = Append(@, "conn")]
    /\ UNCHANGED <<enginevars, optvars, time_stats_file, ext_stop, tlb_flush,
                   memoryHierarchyPtr, coreid_counter, context_counter,
                   core_names, controllers, controller_hash, interconnects,
                   fatal>>

\* BaseMachine::add_new_connection (l.468-476), on the ConnectionDef the
\* generator holds: the one get_new_connection_def returned last
AddNewConnection ==
    /\ GenCall("attach")
    /\ LET c == Head(gen)
       IN  connections' = [connections EXCEPT ![Len(connections)].connections =
                              Append(@, [controller |-> c.name, type |-> c.tag])]
    /\ gen' = Tail(gen)
    /\ UNCHANGED <<enginevars, optvars, time_stats_file, ext_stop, tlb_flush,
                   memoryHierarchyPtr, coreid_counter, context_counter,
                   core_names, controllers, controller_hash, interconnects,
                   asm, fatal>>

\* l.499-510: the attachments j, j + 1, ... of connDef on the interconnect ptr
RECURSIVE RegisterFrom(_, _, _, _, _)
RegisterFrom(j, connDef, ptr, ints, conts) ==
    IF j > Len(connDef.connections)
    THEN [ints |-> ints, conts |-> conts, fatal |-> NoFatal]
    ELSE LET sg == connDef.connections[j]
         IN  IF ~Has(controller_hash, sg.controller)
             THEN [ints |-> ints, conts |-> conts,
                   fatal |-> Fatal("no_controller", sg.controller, <<>>)]
             ELSE LET cont == controller_hash[sg.controller]
                  IN  RegisterFrom(j + 1, connDef, ptr,
                          [ints EXCEPT ![ptr].controllers = Append(@, cont)],
                          [conts EXCEPT ![cont].interconnects =
                                            Append(@, <<ptr, sg.type>>)])

\* l.480-511: the ConnectionDefs i, i + 1, ... of connections
RECURSIVE MaterializeFrom(_, _, _)
MaterializeFrom(i, ints, conts) ==
    IF i > Len(connections)
    THEN [ints |-> ints, conts |-> conts, fatal |-> NoFatal]
    ELSE LET connDef == connections[i]
         IN  IF connDef.interconnect \notin interconnectBuilders
             THEN [ints |-> ints, conts |-> conts,
                   fatal |-> Fatal("no_interconnect_builder", connDef.interconnect,
                                   MissingDiag("Interconnect Builder '",
                                               connDef.interconnect,
                                               "'. Please check your config file."))]
             ELSE LET interCon == [type |-> connDef.interconnect,
                                   name |-> connDef.name,
                                   mh |-> memoryHierarchyPtr,
                                   controllers |-> <<>>]
                      pushed == Append(ints, interCon)
                      r == RegisterFrom(1, connDef, Len(pushed), pushed, conts)
                  IN  IF r.fatal.kind # "none" THEN r
                      ELSE MaterializeFrom(i + 1, r.ints, r.conts)

\* BaseMachine::setup_interconnects (l.478-512)
SetupInterconnects ==
    /\ GenCall("setup")
    /\ LET r == MaterializeFrom(1, interconnects, controllers)
       IN  /\ interconnects' = r.ints
           /\ controllers' = r.conts
           /\ fatal' = r.fatal
           /\ asm' = [asm EXCEPT !.phase = IF r.fatal.kind = "none"
                                           THEN "gen" ELSE "fatal",
                                 !.events = Append(@, "setup")]
    /\ gen' = Tail(gen)
    /\ UNCHANGED <<enginevars, optvars, time_stats_file, ext_stop, tlb_flush,
                   memoryHierarchyPtr, coreid_counter, context_counter,
                   core_names, controller_hash, connections>>

\* init, once the generator has returned (l.89-95)
MachineInitEnd ==
    /\ asm.phase = "gen"
    /\ gen = <<>>
    /\ core_names' = [i \in DOMAIN core_names |->
                         [core_names[i] EXCEPT !.mh = memoryHierarchyPtr]]
    /\ \E loglevel \in LogLevels : SetupThreads(cores, loglevel)
    /\ pc' = "idle"
    /\ asm' = [asm EXCEPT !.phase = "ready"]
    /\ UNCHANGED <<tmpl, cores, countvars, exiting, logenable, first_run,
                   ret_qemu_env, last_ret, widx, wexiting, mycores, callvars,
                   flagvars, stats_log, optvars, time_stats_file, ext_stop, tlb_flush,
                   memoryHierarchyPtr, coreid_counter, context_counter,
                   controllers, controller_hash, interconnects, connections,
                   gen, fatal>>

\* BaseMachine::reset (l.48-65), between two calls of run(); the next
\* init() is then made with a machine_config of the caller's choice
MachineReset ==
    /\ asm.phase = "ready"
    /\ pc = "idle"
    /\ asm.built < MaxAssemblies
    /\ context_counter' = 0
    /\ coreid_counter' = 0
    /\ cores' = <<>>
    /\ core_names' = <<>>
    /\ runcycle_calls' = [c \in CoreIds |-> 0]
    /\ memoryHierarchyPtr' = 0
    /\ \E machine_config \in MachineConfigs :
          asm' = [asm EXCEPT !.phase = "new", !.machine_config = machine_config,
                             !.events = <<>>, !.clock0 = clock_calls]
    /\ pc' = "boot"
    /\ UNCHANGED <<cfgvars, pthreads, start_id, runcycle_barrier,
                   exit_process_barrier, countvars, exiting, logenable,
                   first_run, ret_qemu_env, last_ret, setup_seen, workvars,
                   clock_calls, cycle_votes, flagvars, stats_log, optvars,
                   time_stats_file, ext_stop, tlb_flush, controllers, controller_hash,
                   interconnects, connections, gen, fatal>>

InitAsm ==
    /\ config = [threaded_simulation |-> FALSE, cores_per_pthread |-> 1,
                 start_log_at_iteration |-> 0, log_user_only |-> FALSE,
                 wait_all_finished |-> FALSE, stop_at_user_insns |-> 0]
    /\ tmpl = [ncores |-> 0, voters |-> {}, voteAt |-> 0]
    /\ logenable = FALSE
    /\ time_stats_file = FALSE
    /\ \E machine_config \in MachineConfigs :
          asm = [AsmOff EXCEPT !.phase = "new", !.machine_config = machine_config]
    /\ NoCycleYet
    /\ Constructed

NextAsm ==
    \/ MachineInitBegin
    \/ SetupMachine
    \/ AddNewCore
    \/ AddNewCont
    \/ GetNewConnectionDef
    \/ AddNewConnection
    \/ SetupInterconnects
    \/ MachineInitEnd
    \/ RunEnter
    \/ SeqCycle
    \/ MachineReset

SpecAsm == InitAsm /\ [][NextAsm]_vars

\* ======================================================================
\* Runs that cross the stride of the periodic snapshot.  sim_cycle and
\* iterations are process-wide counters that no function of the driver
\* resets: a machine may be initialised when earlier cycles have run.
StatsBase == {0, PeriodicStride - 1}

\* the dumps of the cycles 0 .. base - 1, base below the stride
PastDumps(base) ==
    IF time_stats_file /\ base > 0
    THEN <<[ev |-> "header", key |-> 0], [ev |-> "periodic", key |-> 0]>>
    ELSE <<>>

InitStats ==
    /\ config \in [threaded_simulation : BOOLEAN,
                   cores_per_pthread : {1},
                   start_log_at_iteration : {0, PeriodicStride},
                   log_user_only : {FALSE},
                   wait_all_finished : {FALSE},
                   stop_at_user_insns : {0, NoBudget}]
    /\ tmpl \in [ncores : {MaxCores - 1}, voters : {{}}, voteAt : {0}]
              \cup [ncores : {MaxCores - 1}, voters : {{0}}, voteAt : {1}]
    /\ logenable = FALSE
    /\ time_stats_file \in BOOLEAN
    /\ asm = AsmOff
    /\ \E base \in StatsBase :
          /\ sim_cycle = base
          /\ iterations = base
          /\ stats_log = PastDumps(base)
    /\ Constructed

SpecStats == InitStats /\ [][Next]_vars

\* ======================================================================
\* An external stop: some thread other than the orchestrator and the
\* workers sets exit_requested under exit_mutex while the loop is running
LoopPcs == {"s_top", "t_top", "t_clock", "t_runbar", "t_runwait", "t_joinbar",
            "t_joinwait", "t_lock", "t_cs", "t_post"}

ExternalStop ==
    /\ ~ext_stop.made
    /\ pc \in LoopPcs
    /\ exit_mutex = Free
    /\ exit_requested' = TRUE
    /\ ext_stop' = [made |-> TRUE,
                    cycle |-> Len(hist),
                    mode |-> IF pc = "s_top" THEN "seq" ELSE "thr"]
    /\ UNCHANGED <<cfgvars, machvars, countvars, orchvars, workvars, callvars,
                   exit_mutex, stats_log, optvars, asmvars, time_stats_file,
                   tlb_flush>>

InitExt ==
    /\ Init
    /\ ~config.wait_all_finished
    /\ ~config.log_user_only
    /\ config.stop_at_user_insns = NoBudget
    /\ ~logenable

NextExt ==
    \/ Next
    \/ ExternalStop

SpecExt == InitExt /\ [][NextExt]_vars

\* ======================================================================
\* Scheduling: the orchestrator and every worker thread keep being run
Orchestrator ==
    \/ MachineInit
    \/ RunEnter
    \/ SeqCycle
    \/ ThreadedTop
    \/ ClockReturn
    \/ OrchRunArrive
    \/ OrchJoinArrive
    \/ OrchLock
    \/ OrchTakeFlag
    \/ ThreadedPost

InitLive ==
    /\ Init
    /\ config.threaded_simulation
    /\ ~config.wait_all_finished
    /\ ~config.log_user_only
    /\ config.stop_at_user_insns = NoBudget
    /\ config.start_log_at_iteration \in {0, MaxStartLog}
    /\ ~logenable

SpecLive ==
    /\ InitLive
    /\ [][Next]_vars
    /\ WF_vars(Orchestrator)
    /\ \A w \in Workers : WF_vars(Worker(w))

\* ======================================================================
\* The TLB flush broadcasts, made by the thread that calls run() while it
\* is not inside run()
\* the cores a worker is advancing: those it is inside runcycle() of
BeingAdvanced == {mycores[w][widx[w]] : w \in {x \in Workers : wpc[x] = "w_in"}}

\* foreach(i, cores.count()) cores[i]->flush...: the coreids visited, in order
Broadcast(kind) ==
    /\ pc = "idle"
    /\ tlb_flush' = [made |-> TRUE, kind |-> kind,
                     order |-> [i \in DOMAIN cores |-> cores[i]],
                     busy |-> BeingAdvanced,
                     at |-> Len(hist)]
    /\ UNCHANGED <<enginevars, optvars, asmvars, time_stats_file, ext_stop>>

\* BaseMachine::flush_tlb (l.400-406)
FlushTlb ==
    /\ setup_seen.done
    /\ Broadcast("flush_tlb")

\* BaseMachine::flush_tlb_virt (l.408-414)
FlushTlbVirt ==
    /\ setup_seen.done
    /\ Broadcast("flush_tlb_virt")

InitFlush ==
    /\ Init
    /\ ~config.wait_all_finished
    /\ ~config.log_user_only
    /\ ~logenable

NextFlush ==
    \/ Next
    \/ FlushTlb
    \/ FlushTlbVirt

SpecFlush == InitFlush /\ [][NextFlush]_vars

\* ======================================================================
\* Properties
\* ======================================================================
Ceil(a, b) == (a + b - 1) \div b

ThreadedPcs == {"t_top", "t_clock", "t_runbar", "t_runwait", "t_joinbar",
                "t_joinwait", "t_lock", "t_cs", "t_post"}

\* the engine has finished a postamble (or has not started a cycle yet)
CycleBoundary == setup_seen.done /\ pc \in {"idle", "s_top", "t_top", "halt"}

AllStarted == \A w \in pthreads : wpc[w] # "w_start"

InRuncycle(w) == wpc[w] = "w_in"

\* the cores assigned to some worker
Assigned == UNION {Range(mycores[w]) : w \in pthreads}

\* calls of a core before cycle c, from the history
CallsBefore(c, core) == IF c = 1 THEN 0 ELSE hist[c - 1].calls[core]

\* C1: at every cycle boundary, in both modes, the number of clock() calls
\* and, for every core of the cores sequence, the number of runcycle() calls
\* equal the number of completed cycles.
C1_CallsEqualCycles ==
    CycleBoundary =>
        /\ iterations = sim_cycle
        /\ clock_calls = sim_cycle
        /\ \A i \in 1 .. Len(cores) : runcycle_calls[cores[i]] = sim_cycle

\* C2: in threaded mode a core's runcycle() runs only between the return of
\* the cycle's clock() and the orchestrator's return from the join barrier;
\* while clock() runs every assigned core has finished the previous cycle;
\* and a core being advanced has not been advanced before in this cycle.
C2_TwoBarrierOrdering ==
    /\ \A w \in Workers :
          InRuncycle(w) =>
             /\ pc \in {"t_joinbar", "t_joinwait"}
             /\ clock_calls = sim_cycle + 1
             /\ runcycle_calls[mycores[w][widx[w]]] = sim_cycle
    /\ pc \in {"t_top", "t_clock"} =>
          /\ \A w \in Workers : ~InRuncycle(w)
          /\ AllStarted => \A core \in Assigned : runcycle_calls[core] = sim_cycle
    /\ \A core \in CoreIds : runcycle_calls[core] <= clock_calls

C2_Witness ==
    /\ Cardinality(pthreads) >= 2
    /\ sim_cycle >= 1
    /\ \E w, v \in pthreads : InRuncycle(w) /\ wpc[v] = "w_joinwait"

\* C3: once threaded mode is set up, the number of workers is
\* ceil(cores / cores_per_pthread), every core belongs to the slice of exactly
\* one worker, and worker i holds coreids [i*cpp, min((i+1)*cpp, cores)).
C3_WorkersCoverCores ==
    (pthreads # {} /\ AllStarted) =>
        LET n == Len(cores)
            cpp == config.cores_per_pthread
        IN  /\ Cardinality(pthreads) = Ceil(n, cpp)
            /\ \A i \in 1 .. n :
                  Cardinality({w \in pthreads : cores[i] \in Range(mycores[w])}) = 1
            /\ \A w \in pthreads :
                  Range(mycores[w]) =
                     {c \in CoreIds : w * cpp <= c /\ c < Min((w + 1) * cpp, n)}

\* C4: a cycle ends the run loop exactly when, after that cycle, the budget is
\* met, or a core voted in it, or wait_all_finished is set; with a budget of 0
\* the loop exits after one cycle, clock() and every runcycle() called once.
C4_ExitCycle ==
    /\ \A c \in 1 .. Len(hist) :
          hist[c].exited <=>
             \/ config.wait_all_finished
             \/ config.stop_at_user_insns <= hist[c].total
             \/ hist[c].voted
    /\ (config.stop_at_user_insns = 0 /\ Len(hist) >= 1) =>
          /\ hist[1].exited
          /\ \A i \in 1 .. Len(cores) : hist[1].calls[cores[i]] = 1
    /\ (config.stop_at_user_insns = 0 /\ CycleBoundary /\ sim_cycle = 1) =>
          clock_calls = 1

\* the sequential loop run c times from the initial state
RECURSIVE SeqCalls(_)
SeqCalls(c) ==
    IF c = 0 THEN [core \in CoreIds |-> 0] ELSE AdvanceAll(cores, SeqCalls(c - 1))

SeqTotal(c) == CollectInsns(cores, SeqCalls(c))

SeqExited(c) == AtLimits(SeqTotal(c)) \/ AnyVote(cores, SeqCalls(c))

\* C5: every cycle completed in threaded mode leaves the counters, the
\* per-core runcycle counts and the exit decision that the sequential loop
\* leaves after the same number of cycles.
C5_ThreadedMatchesSequential ==
    \A c \in 1 .. Len(hist) :
        hist[c].mode = "thr" =>
            /\ hist[c].total = SeqTotal(c)
            /\ hist[c].calls = SeqCalls(c)
            /\ hist[c].exited = SeqExited(c)

\* C6: a vote cast in cycle c does not preempt it: every core is advanced
\* exactly once in c, the loop exits at the end of c, and all cores have
\* equal runcycle counts at the exit.
C6_VoteEndsWholeCycle ==
    \A c \in 1 .. Len(hist) :
        hist[c].voted =>
            /\ hist[c].exited
            /\ \A i \in 1 .. Len(cores) :
                  /\ hist[c].calls[cores[i]] = CallsBefore(c, cores[i]) + 1
                  /\ hist[c].calls[cores[i]] = hist[c].calls[cores[1]]

\* C7: after the join barrier the shared flag, and then the value the
\* orchestrator takes from it, is the disjunction of the votes returned in
\* this cycle; the flag is clear whenever workers can be released into a cycle.
C7_FlagIsCycleVotes ==
    /\ pc \in {"t_lock", "t_cs"} => exit_requested = cycle_votes
    /\ pc = "t_post" => (exiting = cycle_votes /\ ~exit_requested)
    /\ pc \in {"boot", "idle", "s_top", "halt", "t_top", "t_clock", "t_runbar",
               "t_runwait"} => ~exit_requested

C7_Witness ==
    /\ pc = "t_post"
    /\ exiting
    /\ sim_cycle >= 1
    /\ Cardinality(pthreads) >= 2

\* the condition under which threaded mode is entered
MayThread ==
    /\ setup_seen.threaded
    /\ Len(cores) > config.cores_per_pthread
    /\ ~setup_seen.logable

\* C8: workers exist exactly when threaded simulation was requested, the cores
\* outnumber cores_per_pthread and logable(1) was false; otherwise
\* threaded_simulation is cleared and every cycle is run by the sequential loop.
C8_ThreadedOnlyIf ==
    setup_seen.done =>
        /\ (pthreads # {}) <=> MayThread
        /\ config.threaded_simulation => MayThread
        /\ ~MayThread =>
              /\ pc \notin ThreadedPcs
              /\ \A c \in 1 .. Len(hist) : hist[c].mode = "seq"

C8_Witness ==
    /\ setup_seen.done
    /\ setup_seen.threaded
    /\ ~setup_seen.logable
    /\ Len(cores) = config.cores_per_pthread
    /\ Len(hist) >= 1

\* C9: with start_log_at_iteration = T > 0 and workers set up, cycles before
\* T are run by the threaded loop and cycles from T on by the sequential loop;
\* the threaded loop runs no cycle at iteration T or later and its return at
\* the threshold leaves threaded_simulation cleared.
C9_DegradeAtLogStart ==
    (config.start_log_at_iteration > 0 /\ pthreads # {}) =>
        /\ \A c \in 1 .. Len(hist) :
              hist[c].mode = (IF c <= config.start_log_at_iteration
                              THEN "thr" ELSE "seq")
        /\ pc \in (ThreadedPcs \ {"t_top"}) =>
              iterations < config.start_log_at_iteration
        /\ last_ret = "degrade" =>
              /\ ~config.threaded_simulation
              /\ iterations >= config.start_log_at_iteration

C9_Witness ==
    /\ config.start_log_at_iteration > 0
    /\ pthreads # {}
    /\ Len(hist) > config.start_log_at_iteration
    /\ hist[config.start_log_at_iteration].mode = "thr"
    /\ hist[config.start_log_at_iteration + 1].mode = "seq"

\* C10 as stated: whenever run() has returned because the stop predicate
\* held, for any of the three reasons, ret_qemu_env is bound.
C10_BoundOnEveryExit ==
    (pc = "idle" /\ last_ret \in {"limit", "vote"}) => ret_qemu_env

\* C10 as amended: when run() has returned through the vote branch (a core
\* voted and the limits were not reached), ret_qemu_env is bound.
C10_BoundOnVoteExit ==
    (pc = "idle" /\ last_ret = "vote") => ret_qemu_env

C10_Witness ==
    /\ pc = "idle"
    /\ last_ret = "vote"
    /\ Len(hist) >= 1
    /\ hist[Len(hist)].mode = "thr"

\* ----------------------------------------------------------------------
\* C13: for each of the three kinds, get_option on a (name, opt) that has
\* been set returns true and leaves out equal to the value most recently
\* set, whatever out held before the call
WasSet(kind, name, opt) == Has(opt_set[kind], <<name, opt>>)

C13_RoundTrip ==
    (opt_get.called /\ WasSet(opt_get.kind, opt_get.name, opt_get.opt)) =>
        /\ opt_get.ret
        /\ opt_get.after = opt_set[opt_get.kind][<<opt_get.name, opt_get.opt>>]

\* ----------------------------------------------------------------------
\* C14: get_option returns true iff a value of exactly that kind was stored
\* under exactly that (name, opt); when it returns false out is unchanged
C14_ExactTriple ==
    opt_get.called =>
        /\ opt_get.ret <=> WasSet(opt_get.kind, opt_get.name, opt_get.opt)
        /\ ~opt_get.ret => opt_get.after = opt_get.before

\* ----------------------------------------------------------------------
\* C11: during init the memory hierarchy is constructed after every core
\* and controller of the machine has been created, and before the first
\* clock() call of the assembled machine
C11_HierarchyAfterComponents ==
    /\ \A i, j \in DOMAIN asm.events :
          (asm.events[i] = "hier" /\ asm.events[j] \in {"core", "cont"}) => j < i
    /\ (asm.phase # "off" /\ clock_calls > asm.clock0) => memoryHierarchyPtr # 0

\* ----------------------------------------------------------------------
\* C12: after assembly the core at position i has coreid i - 1 (positions
\* from 1), the ids are pairwise distinct, and the instance name composed
\* by add_new_core is prefix || coreid; also after a reset and reassembly
Assembled == asm.phase = "ready"

C12_CoreidsArePositions ==
    Assembled =>
        /\ Len(core_names) = Len(cores)
        /\ \A i \in DOMAIN cores :
              /\ cores[i] = i - 1
              /\ core_names[i].name = core_names[i].prefix \o Fmt(cores[i])
        /\ \A i, j \in DOMAIN cores : cores[i] = cores[j] => i = j

C12_Witness ==
    /\ Assembled
    /\ asm.built >= MaxAssemblies
    /\ Len(cores) >= Cardinality(coreBuilders)
    /\ core_names[Len(cores)].name = "core_1"

\* ----------------------------------------------------------------------
\* C15: after setup_interconnects the interconnects sequence holds exactly
\* one interconnect per ConnectionDef, in order, of the declared type and
\* name, and every declared attachment is registered in both directions
BothRegistered(i, j) ==
    LET sg == connections[i].connections[j]
        cont == interconnects[i].controllers[j]
    IN  /\ cont \in DOMAIN controllers
        /\ controllers[cont].name = sg.controller
        /\ \E k \in DOMAIN controllers[cont].interconnects :
              controllers[cont].interconnects[k] = <<i, sg.type>>

C15_OnePerConnectionDef ==
    (Assembled /\ "setup" \in Range(asm.events)) =>
        /\ Len(interconnects) = Len(connections)
        /\ \A i \in DOMAIN connections :
              /\ i \in DOMAIN interconnects
              /\ interconnects[i].type = connections[i].interconnect
              /\ interconnects[i].name = connections[i].name
              /\ Len(interconnects[i].controllers) = Len(connections[i].connections)
              /\ \A j \in DOMAIN connections[i].connections : BothRegistered(i, j)

\* ----------------------------------------------------------------------
\* C16: every configuration error stops init with a diagnostic naming the
\* missing key, and no clock() or runcycle() call of the machine happens
C16_FatalNamesKey ==
    fatal.kind # "none" =>
        /\ asm.phase = "fatal"
        /\ fatal.key \in Range(fatal.diag)
        /\ clock_calls = asm.clock0
        /\ \A c \in CoreIds : runcycle_calls[c] = 0

\* ----------------------------------------------------------------------
\* C17: after reset() the machine owns nothing it had assembled, and the
\* next assembly yields exactly the components of the new template
Count(events, e) == Cardinality({i \in DOMAIN events : events[i] = e})

C17_ResetReleasesAll ==
    /\ (asm.phase = "new" /\ asm.built >= 1) =>
          /\ cores = <<>>
          /\ controllers = <<>>
          /\ controller_hash = EmptyTable
          /\ interconnects = <<>>
          /\ memoryHierarchyPtr = 0
          /\ coreid_counter = 0
          /\ context_counter = 0
    /\ Assembled =>
          /\ Len(cores) = Count(asm.events, "core")
          /\ Len(controllers) = Count(asm.events, "cont")
          /\ Len(interconnects) = Count(asm.events, "conn")

\* ----------------------------------------------------------------------
\* C18: with a time-series file configured, the header is emitted once, at
\* cycle 0 and before any periodic snapshot, and a periodic snapshot keyed
\* by the cycle is emitted exactly once for each started cycle that is a
\* multiple of 10000 and for no other cycle
InCycle == pc \in {"t_clock", "t_runbar", "t_runwait", "t_joinbar",
                   "t_joinwait", "t_lock", "t_cs", "t_post"}
CycleStarted(c) == c < sim_cycle \/ (c = sim_cycle /\ InCycle)
Snapshot(c) == [ev |-> "periodic", key |-> c]

C18_StatsOncePerStride ==
    time_stats_file =>
        /\ \A i \in DOMAIN stats_log :
              /\ stats_log[i].ev = "header" => (i = 1 /\ stats_log[i].key = 0)
              /\ stats_log[i].ev = "periodic" =>
                    /\ stats_log[i].key % PeriodicStride = 0
                    /\ CycleStarted(stats_log[i].key)
                    /\ \A j \in DOMAIN stats_log :
                          stats_log[j] = stats_log[i] => j = i
        /\ CycleStarted(0) => (stats_log # <<>> /\ stats_log[1].ev = "header")
        /\ \A m \in {0, PeriodicStride} :
              CycleStarted(m) => Snapshot(m) \in Range(stats_log)

C18_Witness ==
    /\ time_stats_file
    /\ sim_cycle > PeriodicStride
    /\ Snapshot(PeriodicStride) \in Range(stats_log)
    /\ last_ret = "degrade"
    /\ hist # <<>>
    /\ hist[1].mode = "thr"

\* ----------------------------------------------------------------------
\* C19: an external stop request made while the loop is running takes
\* effect at a cycle boundary, in either mode: the loop exits at the end of
\* the cycle in progress or, at the latest, at the end of the one after it
C19_ExternalStopEndsLoop ==
    (ext_stop.made /\ Len(hist) >= ext_stop.cycle + 2) =>
        \/ hist[ext_stop.cycle + 1].exited
        \/ hist[ext_stop.cycle + 2].exited

\* ----------------------------------------------------------------------
\* C20: in threaded mode, with runcycle() returning and a fair scheduler,
\* every cycle the orchestrator starts passes both barrier waits and reaches
\* the postamble, and no thread waits on one barrier while another thread
\* waits on the other
SameBarrier ==
    ~(runcycle_barrier.waiting # {} /\ exit_process_barrier.waiting # {})

C20_HandshakeCompletes ==
    /\ []SameBarrier
    /\ (pc = "t_runbar") ~> (pc = "t_post")

C20_Witness ==
    /\ pc = "t_post"
    /\ Cardinality(pthreads) >= 2
    /\ Len(hist) >= 1

\* ----------------------------------------------------------------------
\* C21: when run_threaded abandons threaded mode it does so before starting
\* a cycle: at the return clock() has been called once per completed cycle,
\* the cores and the counters are as the last completed cycle left them, the
\* termination flag is as the orchestrator left it, and the sequential cycle
\* that follows advances every core exactly once
LastCycle == hist[Len(hist)]
Degraded == pc = "idle" /\ last_ret = "degrade"

C21_DegradeBeforeCycle ==
    /\ Degraded =>
          /\ hist # <<>>
          /\ LastCycle.mode = "thr"
          /\ clock_calls = Len(hist)
          /\ sim_cycle = Len(hist)
          /\ iterations = Len(hist)
          /\ runcycle_calls = LastCycle.calls
          /\ total_user_insns_committed = LastCycle.total
          /\ exit_requested = ClearedFlag(LastCycle.voted)
          /\ \A w \in Workers : wpc[w] \notin {"w_in", "w_lock", "w_cs"}
    /\ \A i \in DOMAIN hist :
          (i > 1 /\ hist[i].mode = "seq" /\ hist[i - 1].mode = "thr") =>
              hist[i].calls = AdvanceAll(cores, hist[i - 1].calls)

C21_Witness ==
    /\ Len(hist) >= 2
    /\ hist[Len(hist) - 1].mode = "thr"
    /\ LastCycle.mode = "seq"
    /\ last_ret = "degrade"
    /\ pthreads # {}

\* ----------------------------------------------------------------------
\* C22: once run() has returned in threaded mode, and until it is called
\* again, every worker is at the run barrier and none is inside runcycle();
\* a flush_tlb / flush_tlb_virt broadcast made then visits every core in
\* coreid order while no core is being advanced
AtRunBarrier(w) == wpc[w] \in {"w_runbar", "w_runwait"}

C22_NoWorkerBetweenRuns ==
    /\ (pc = "idle" /\ last_ret # "none" /\ pthreads # {}) =>
          \A w \in pthreads : AtRunBarrier(w)
    /\ tlb_flush.made =>
          /\ tlb_flush.busy = {}
          /\ tlb_flush.order = [i \in 1 .. Len(cores) |-> i - 1]

C22_Witness ==
    /\ tlb_flush.made
    /\ tlb_flush.at >= 1
    /\ tlb_flush.at = Len(hist)
    /\ LastCycle.mode = "thr"
    /\ Cardinality(pthreads) >= 2
    /\ \A w \in pthreads : wpc[w] = "w_runwait"

====
